---- MODULE Spec2Model ----
(***************************************************************************)
(* A model of the legendas.tv subtitle provider                            *)
(* (lib/subliminal/providers/legendastv.py): the metadata matcher, the     *)
(* candidate normalizer, the query pipeline with its ranking, and          *)
(* list_subtitles.                                                         *)
(***************************************************************************)
EXTENDS Integers, Sequences, FiniteSets, TLC

VARIABLES
    call,        \* the arguments and the result of one direct call of matches
    world,       \* which bounded catalogue the server answers from
    entry,       \* the public method invoked from outside
    pc,          \* the position of the running call
    q,           \* title, season, episode, year of the running query
    language,    \* the language of the running query
    cache,       \* the memoized results of search_candidates
    nresults,    \* number of raw hits in the search response
    hi,          \* raw hits processed so far
    candidates,  \* search_candidates' list
    malformed,   \* a malformed raw hit was met in this response
    ci,          \* index of the candidate whose listing is walked
    page_no,     \* number of the listing page held (0: none fetched yet)
    remaining,   \* listing entries of the page held still to be processed
    subtitles,   \* query's list, in discovery order
    seen,        \* every listing entry parsed by this query, with what was done
    returned,    \* the value handed back to the outside caller
    languages,   \* list_subtitles' languages
    li,          \* languages queried so far
    listed,      \* records list_subtitles has collected
    extracted    \* the outcome of a direct extract_subtitle call

searchVars == <<cache, nresults, hi, candidates, malformed>>
pageVars == <<ci, page_no, remaining>>
queryVars == <<q, language, subtitles, seen>>
listVars == <<languages, li, listed>>
machineVars ==
    <<world, entry, pc, searchVars, pageVars, queryVars, listVars, returned, extracted>>
vars == <<call, machineVars>>

\* Python's None for the optional integer fields (season, episode, year, ...).
\* Every present value is a non-negative integer, so None is kept below them.
None == -1

\* A guessit descriptor without a 'type' key: .get('type') gives None.
NoType == "None"

\* Largest season / episode / year number the inputs use.
MaxNum == 1

Nums == 0 .. MaxNum
Opt == Nums \cup {None}

\* Python truthiness of an optional integer: None and 0 are falsy.
Truthy(x) == x # None /\ x # 0

(***************************************************************************)
(* Titles are character sequences, so that sanitizing is a computation.    *)
(***************************************************************************)
TUp == <<"U", "p">>
TUpLower == <<"u", "p">>
TUpBang == <<"U", "p", "!">>
TUp2 == <<"U", "p", " ", "2">>
TOz == <<"O", "z">>
Titles == {TUp, TUpLower, TUpBang, TUp2, TOz}

Punctuation == {"!", ".", "'"}

Lower(c) ==
    CASE c = "U" -> "u"
      [] c = "P" -> "p"
      [] c = "O" -> "o"
      [] c = "Z" -> "z"
      [] OTHER -> c

IsNotPunctuation(c) == c \notin Punctuation

\* case-fold and strip punctuation
Sanitize(s) == SelectSeq([i \in 1 .. Len(s) |-> Lower(s[i])], IsNotPunctuation)

\* Python's `a in b` on strings
Contains(b, a) ==
    \E i \in 1 .. (Len(b) - Len(a) + 1) : SubSeq(b, i, i + Len(a) - 1) = a

sanitized_string_equal(string1, string2, allow_partial) ==
    LET s1 == Sanitize(string1)
        s2 == Sanitize(string2)
    IN  \/ s1 = s2
        \/ allow_partial /\ (Contains(s2, s1) \/ Contains(s1, s2))

(***************************************************************************)
(* LegendasTvProvider.matches                                              *)
(***************************************************************************)
\* the flag inverted: the episode is compared only when asked to ignore it
matches_flag_inverted(actual_properties, expected_title, expected_season, expected_episode, expected_year, ignore_episode) ==
    LET expected_type == IF Truthy(expected_season) THEN "episode" ELSE "movie"
    IN  IF expected_type # actual_properties.type THEN FALSE
        ELSE IF expected_type = "movie" THEN
            IF ~sanitized_string_equal(expected_title, actual_properties.title, TRUE)
            THEN FALSE
            ELSE IF expected_year # actual_properties.year THEN
                IF Truthy(expected_year) /\ Truthy(actual_properties.year) THEN FALSE
                ELSE sanitized_string_equal(expected_title, actual_properties.title, FALSE)
            ELSE TRUE
        ELSE
            IF ~sanitized_string_equal(expected_title, actual_properties.title, TRUE)
            THEN FALSE
            ELSE IF expected_season # actual_properties.season THEN FALSE
            ELSE IF ignore_episode /\ expected_episode # actual_properties.episode
            THEN FALSE
            ELSE TRUE

\* the season comparison left out of the episode branch
matches_no_season(actual_properties, expected_title, expected_season, expected_episode, expected_year, ignore_episode) ==
    LET expected_type == IF Truthy(expected_season) THEN "episode" ELSE "movie"
    IN  IF expected_type # actual_properties.type THEN FALSE
        ELSE IF expected_type = "movie" THEN
            IF ~sanitized_string_equal(expected_title, actual_properties.title, TRUE)
            THEN FALSE
            ELSE IF expected_year # actual_properties.year THEN
                IF Truthy(expected_year) /\ Truthy(actual_properties.year) THEN FALSE
                ELSE sanitized_string_equal(expected_title, actual_properties.title, FALSE)
            ELSE TRUE
        ELSE
            IF ~sanitized_string_equal(expected_title, actual_properties.title, TRUE)
            THEN FALSE
            ELSE IF ~ignore_episode /\ expected_episode # actual_properties.episode
            THEN FALSE
            ELSE TRUE

matches(actual_properties, expected_title, expected_season, expected_episode, expected_year, ignore_episode) ==
    LET expected_type == IF Truthy(expected_season) THEN "episode" ELSE "movie"
    IN  IF expected_type # actual_properties.type THEN FALSE
        ELSE IF expected_type = "movie" THEN
            IF ~sanitized_string_equal(expected_title, actual_properties.title, TRUE)
            THEN FALSE
            ELSE IF expected_year # actual_properties.year THEN
                IF Truthy(expected_year) /\ Truthy(actual_properties.year) THEN FALSE
                ELSE sanitized_string_equal(expected_title, actual_properties.title, FALSE)
            ELSE TRUE
        ELSE
            IF ~sanitized_string_equal(expected_title, actual_properties.title, TRUE)
            THEN FALSE
            ELSE IF expected_season # actual_properties.season THEN FALSE
            ELSE IF ~ignore_episode /\ expected_episode # actual_properties.episode
            THEN FALSE
            ELSE TRUE

(***************************************************************************)
(* search_candidates: raw hits and their normalization.                    *)
(* A raw JSON string field is absent (None), empty, all digits (with its   *)
(* number n) or some other text.                                           *)
(***************************************************************************)
Absent == [k |-> "absent", n |-> None]
Empty == [k |-> "empty", n |-> None]
Text == [k |-> "text", n |-> None]
Digits(n) == [k |-> "digits", n |-> n]
\* an IMDB id written "tt<digits>"
TT(n) == [k |-> "tt", n |-> n]
\* a localized title "<name> - <n>a Temporada"
Temporada(n) == [k |-> "season", n |-> n]

\* truthiness of a str-or-None
RawTruthy(v) == v.k \notin {"absent", "empty"}

\* a code outside the map gives no type
type_map_no_default(tipo) ==
    CASE tipo = "M" -> "movie"
      [] tipo = "S" -> "episode"
      [] tipo = "C" -> "episode"
      [] OTHER -> NoType

\* type_map.get(tipo, 'movie')
type_map(tipo) ==
    CASE tipo = "M" -> "movie"
      [] tipo = "S" -> "episode"
      [] tipo = "C" -> "episode"
      [] OTHER -> "movie"

\* imdb_re.search(text).group(1), None without a match
imdb_re(v) == IF v.k \in {"digits", "tt"} THEN Digits(v.n) ELSE Absent

\* season_re.search(title_br).group(1), None without a match
season_re(v) == IF v.k = "season" THEN Digits(v.n) ELSE Absent

\* int(field_text) if field_text and field_text.isdigit() else None
ToInt(v) == IF RawTruthy(v) /\ v.k = "digits" THEN v.n ELSE None

\* result['_source'] raises KeyError without the nested record, and
\* imdb_re.search(None) raises TypeError when id_imdb is missing
HitRaises(hit) == ~hit.has_source \/ hit.id_imdb.k = "absent"

\* the item built from one well-formed hit
Normalize(hit) ==
    LET season_text ==
            IF ~RawTruthy(hit.temporada) /\ RawTruthy(hit.dsc_nome_br)
            THEN season_re(hit.dsc_nome_br)
            ELSE hit.temporada
    IN  [id |-> hit.id_filme,
         type |-> type_map(hit.tipo),
         title |-> hit.dsc_nome,
         season |-> ToInt(season_text),
         episode |-> None,
         year |-> ToInt(hit.dsc_data_lancamento),
         imdb_id |-> ToInt(imdb_re(hit.id_imdb))]

\* the first filtering pass, on the season or movie only
CandidatePasses(item, query) ==
    matches(item, query.title, query.season, query.episode, query.year, TRUE)

(***************************************************************************)
(* Release names. guessit is an external parser: a name is held as what it *)
(* parses to, and the type hint decides the type of the guess.             *)
(***************************************************************************)
Name(title, season, episode, year) ==
    [title |-> title, season |-> season, episode |-> episode, year |-> year]

guessit(name, type_hint) ==
    [type |-> type_hint, title |-> name.title, season |-> name.season,
     episode |-> name.episode, year |-> name.year]

\* the second pass, on a listing entry's name
EntryPasses_unfiltered(candidate, e, query) == TRUE

EntryPasses(candidate, e, query) ==
    matches(guessit(e.name, candidate.type), query.title, query.season,
            query.episode, query.year, e.multiple_episodes)

\* the third pass, on an inner filename: the episode is always compared
NamePasses_as_entry(candidate, e, f, query) ==
    matches(guessit(f.stem, candidate.type), query.title, query.season,
            query.episode, query.year, e.multiple_episodes)

NamePasses(candidate, e, f, query) ==
    matches(guessit(f.stem, candidate.type), query.title, query.season,
            query.episode, query.year, FALSE)

(***************************************************************************)
(* Archives. A member name is its stem (os.path.splitext(name)[0]), its    *)
(* extension and whether it carries the 'legendas.tv' marker.              *)
(***************************************************************************)
File(stem, ext, marked) == [stem |-> stem, ext |-> ext, marked |-> marked]

SUBTITLE_EXTENSIONS == {"srt", "sub"}

\* 'legendas.tv' not in f.lower() and f.lower().endswith(SUBTITLE_EXTENSIONS)
IsSubtitleName(f) == ~f.marked /\ f.ext \in SUBTITLE_EXTENSIONS

Archive(fmt, members) == [fmt |-> fmt, members |-> members]

\* _uncompress's cf: None when the content is neither RAR nor ZIP
\* an unrecognized archive is opened anyway
Recognized_always(content) == TRUE

Recognized(content) == content.fmt \in {"rar", "zip"}

NoneValue == [is_none |-> TRUE, names |-> <<>>]

get_subtitle_names(content) ==
    IF Recognized(content)
    THEN [is_none |-> FALSE, names |-> SelectSeq(content.members, IsSubtitleName)]
    ELSE NoneValue

\* "none", "content" or "raised" (the member is not in the archive)
extract_subtitle(content, f) ==
    IF ~Recognized(content) THEN "none"
    ELSE IF \E i \in 1 .. Len(content.members) : content.members[i] = f
         THEN "content"
         ELSE "raised"

(***************************************************************************)
(* The ranking: subtitles.sort(key=..., reverse=True).                     *)
(***************************************************************************)
Bool(b) == IF b THEN 1 ELSE 0

SortKey(s) ==
    <<Bool(s.featured), s.no_downloads, s.rating, Bool(s.multiple_episodes)>>

\* tuple comparison; None (-1) is below every int, as Python 2 orders it
KeyLess(a, b) ==
    \E i \in 1 .. 4 : a[i] < b[i] /\ \A j \in 1 .. (i - 1) : a[j] = b[j]

\* x put behind every element whose key is not below its own
InsertDescStable(sorted, x) ==
    LET behind == {i \in 1 .. Len(sorted) : ~KeyLess(SortKey(sorted[i]), SortKey(x))}
        n == Cardinality(behind)
    IN  SubSeq(sorted, 1, n) \o <<x>> \o SubSeq(sorted, n + 1, Len(sorted))

RECURSIVE SortFrom(_, _)
SortFrom(sorted, rest) ==
    IF rest = <<>> THEN sorted
    ELSE SortFrom(InsertDescStable(sorted, Head(rest)), Tail(rest))

\* ascending: reverse=True forgotten
SortSubtitles_ascending(subs) ==
    LET d == SortFrom(<<>>, subs)
    IN  [i \in 1 .. Len(d) |-> d[Len(d) + 1 - i]]

\* sorted ascending and then reversed, which turns ties around
SortSubtitles_reversed_ties(subs) ==
    SortFrom(<<>>, [i \in 1 .. Len(subs) |-> subs[Len(subs) + 1 - i]])

SortSubtitles(subs) == SortFrom(<<>>, subs)

(***************************************************************************)
(* The matcher on its own: one call with arbitrary arguments.              *)
(***************************************************************************)
Descriptors ==
    [type : {"movie", "episode", NoType}, title : Titles,
     season : Opt, episode : Opt, year : Opt]

NoCall ==
    [done |-> FALSE,
     actual |-> [type |-> NoType, title |-> TUp, season |-> None,
                 episode |-> None, year |-> None],
     title |-> TUp, season |-> None, episode |-> None, year |-> None,
     ignore_episode |-> FALSE, result |-> FALSE]

MatchesCall ==
    /\ ~call.done
    /\ UNCHANGED machineVars
    /\ \E a \in Descriptors, t \in Titles, s \in Opt, e \in Opt, y \in Opt,
          ig \in BOOLEAN :
          call' = [done |-> TRUE, actual |-> a, title |-> t, season |-> s,
                   episode |-> e, year |-> y, ignore_episode |-> ig,
                   result |-> matches(a, t, s, e, y, ig)]

(***************************************************************************)
(* Bounds of the catalogue the server answers from.                        *)
(***************************************************************************)
\* raw hits in one search response
MaxResults == 2
\* listing pages of one candidate
MaxPages == 2
\* listing entries met by one query, over all its pages
MaxEntries == 2
\* languages of one list_subtitles call
MaxLangs == 2

EpisodeQuery == [title |-> TUp, season |-> 1, episode |-> 1, year |-> None]
MovieQuery == [title |-> TUp, season |-> None, episode |-> None, year |-> 2009]
NoQuery == [title |-> TUp, season |-> None, episode |-> None, year |-> None]

Hit(has_source, id_filme, tipo, dsc_nome, temporada, ano, dsc_nome_br, id_imdb) ==
    [has_source |-> has_source, id_filme |-> id_filme, tipo |-> tipo,
     dsc_nome |-> dsc_nome, temporada |-> temporada,
     dsc_data_lancamento |-> ano, dsc_nome_br |-> dsc_nome_br,
     id_imdb |-> id_imdb]

HitSeries == Hit(TRUE, 1, "S", TUp, Digits(1), Digits(2009), Temporada(1), TT(7))
HitMovie == Hit(TRUE, 3, "M", TUp, Absent, Digits(2009), Text, TT(8))
HitOther == Hit(TRUE, 4, "S", TOz, Digits(1), Absent, Absent, Text)
HitNoImdb == Hit(TRUE, 5, "S", TUp, Digits(1), Absent, Absent, Absent)
HitNoSource == Hit(FALSE, 6, "S", TUp, Digits(1), Absent, Absent, TT(7))

RawNumbers == {Absent, Empty, Text} \cup {Digits(n) : n \in Nums}

SearchHits ==
    [has_source : BOOLEAN, id_filme : {1}, tipo : {"M", "S", "X", NoType},
     dsc_nome : {TUp, TOz}, temporada : RawNumbers,
     dsc_data_lancamento : {Absent, Text, Digits(MaxNum)},
     dsc_nome_br : {Absent, Text, Temporada(MaxNum)},
     id_imdb : {Absent, Text, TT(7)}]

N11 == Name(TUp, 1, 1, None)
N12 == Name(TUp, 1, 2, None)
N21 == Name(TUp, 2, 1, None)
NOz == Name(TOz, 1, 1, None)
NMovie == Name(TUpLower, None, None, 2009)
NSequel == Name(TUp2, None, None, None)

F11 == File(N11, "srt", FALSE)
F11Lower == File(Name(TUpLower, 1, 1, None), "srt", FALSE)
F12 == File(N12, "srt", FALSE)
F11Nfo == File(N11, "nfo", FALSE)
F11Marked == File(N11, "srt", TRUE)
FMovie == File(NMovie, "sub", FALSE)
FSequel == File(NSequel, "srt", FALSE)

NotAnArchive == Archive("unknown", <<>>)

Queries(w) ==
    CASE w = "search" ->
             [title : {TUp}, season : Opt, episode : {None}, year : Opt]
      [] w = "funnel" -> {EpisodeQuery, MovieQuery}
      [] OTHER -> {EpisodeQuery}

Hits(w) ==
    CASE w = "search" -> SearchHits
      [] w = "funnel" ->
             {HitSeries, HitMovie, HitOther, HitNoImdb, HitNoSource}
      [] OTHER -> {HitSeries, HitNoImdb}

\* the names a candidate's listing shows: episodes for a series, films for a film
Names(w, candidate) ==
    CASE w = "funnel" /\ candidate.type = "movie" -> {NMovie, NSequel}
      [] w = "funnel" /\ candidate.type # "movie" -> {N11, N12, N21}
      [] OTHER -> {N11, NOz}

\* featured, no_downloads, rating as parsed from a listing block
Pop(featured, no_downloads, rating) ==
    [featured |-> featured, no_downloads |-> no_downloads, rating |-> rating]

Popularity(w) ==
    CASE w = "rank" ->
             {Pop(TRUE, 10, 8), Pop(FALSE, 10, 8), Pop(FALSE, None, 8),
              Pop(FALSE, 10, None)}
      [] OTHER -> {Pop(FALSE, 10, None)}

PackMarks(w, candidate) ==
    IF w \in {"list", "pages"} \/ candidate.type = "movie" THEN {FALSE} ELSE BOOLEAN

Archives(w, candidate) ==
    CASE w = "funnel" /\ candidate.type = "movie" ->
             {NotAnArchive,
              Archive("zip", <<FMovie>>),
              Archive("rar", <<FSequel, FMovie>>)}
      [] w = "funnel" /\ candidate.type # "movie" ->
             {NotAnArchive,
              Archive("zip", <<F11>>),
              Archive("zip", <<F11Nfo, F11Marked>>),
              Archive("rar", <<F12, F11Marked, F11>>)}
      [] w = "rank" ->
             {NotAnArchive, Archive("rar", <<F11, F11Lower>>)}
      [] OTHER -> {NotAnArchive, Archive("zip", <<F11>>)}

\* what one listing block holds
Divs(w, candidate) ==
    [name : Names(w, candidate), in_pack : PackMarks(w, candidate),
     p_prefix : PackMarks(w, candidate), popularity : Popularity(w)]

\* the fields query reads off one listing block
ParseDiv(div) ==
    [name |-> div.name,
     multiple_episodes |-> div.in_pack \/ div.p_prefix,
     featured |-> div.popularity.featured,
     no_downloads |-> div.popularity.no_downloads,
     rating |-> div.popularity.rating]

Langs == 1 .. MaxLangs

\* the languages asked for: 1 .. n for some n up to MaxLangs
LanguageLists == {[i \in 1 .. n |-> i] : n \in 1 .. MaxLangs}

(***************************************************************************)
(* The state machine.                                                      *)
(***************************************************************************)
NoReturn == [given |-> FALSE, value |-> <<>>]
NoCache == [valid |-> FALSE, q |-> NoQuery, value |-> <<>>]
NoExtract == [called |-> FALSE, content |-> NotAnArchive, name |-> F11, result |-> "none"]


InitMachine(w) ==
    /\ call = NoCall
    /\ world = w
    /\ entry = "none"
    /\ pc = "idle"
    /\ q = NoQuery
    /\ language = 0
    /\ cache = NoCache
    /\ nresults = 0
    /\ hi = 0
    /\ candidates = <<>>
    /\ malformed = FALSE
    /\ ci = 0
    /\ page_no = 0
    /\ remaining = 0
    /\ subtitles = <<>>
    /\ seen = <<>>
    /\ returned = NoReturn
    /\ languages = <<>>
    /\ li = 0
    /\ listed = <<>>
    /\ extracted = NoExtract

\* an exception leaves every frame: no method here has a handler, so the
\* outside caller gets the exception and no value
Propagate_keeps_collected ==
    IF entry = "list_subtitles"
    THEN pc' = "returned" /\ returned' = [given |-> TRUE, value |-> listed]
    ELSE pc' = "raised" /\ UNCHANGED returned

Propagate == pc' = "raised" /\ UNCHANGED returned

\* the frames the exception leaves are gone, and their locals with them
Unwind ==
    /\ nresults' = 0
    /\ hi' = 0
    /\ candidates' = <<>>
    /\ ci' = 0
    /\ page_no' = 0
    /\ remaining' = 0

\* ---- the public methods, invoked from outside ----
CallSearchCandidates ==
    /\ pc = "idle"
    /\ \E query \in Queries(world) : q' = query
    /\ entry' = "search_candidates"
    /\ pc' = "search"
    /\ UNCHANGED <<call, world, searchVars, pageVars, language, subtitles, seen,
                   listVars, returned, extracted>>

CallQuery ==
    /\ pc = "idle"
    /\ \E query \in Queries(world) : q' = query
    /\ \E l \in Langs : language' = l
    /\ entry' = "query"
    /\ pc' = "search"
    /\ UNCHANGED <<call, world, searchVars, pageVars, subtitles, seen,
                   listVars, returned, extracted>>

CallListSubtitles ==
    /\ pc = "idle"
    /\ \E query \in Queries(world) : q' = query
    /\ \E ls \in LanguageLists : languages' = ls
    /\ li' = 0
    /\ listed' = <<>>
    /\ entry' = "list_subtitles"
    /\ pc' = "languages"
    /\ UNCHANGED <<call, world, searchVars, pageVars, language, subtitles, seen,
                   returned, extracted>>

\* download_subtitle: subtitle.content = extract_subtitle(binary_content, name)
download_subtitle ==
    /\ pc = "idle"
    /\ \E content \in {NotAnArchive, Archive("zip", <<F11>>), Archive("rar", <<F12>>)},
          f \in {F11, F12} :
          LET r == extract_subtitle(content, f)
          IN  /\ extracted' = [called |-> TRUE, content |-> content,
                               name |-> f, result |-> r]
              /\ pc' = IF r = "raised" THEN "raised" ELSE "returned"
    /\ entry' = "download_subtitle"
    /\ UNCHANGED <<call, world, searchVars, pageVars, queryVars, listVars, returned>>

\* ---- list_subtitles ----
ListNextLanguage ==
    /\ pc = "languages"
    /\ li < Len(languages)
    /\ language' = languages[li + 1]
    /\ subtitles' = <<>>
    /\ seen' = <<>>
    /\ pc' = "search"
    /\ UNCHANGED <<call, world, entry, searchVars, pageVars, q, listVars,
                   returned, extracted>>

ListReturn ==
    /\ pc = "languages"
    /\ li = Len(languages)
    /\ returned' = [given |-> TRUE, value |-> listed]
    /\ pc' = "returned"
    /\ UNCHANGED <<call, world, entry, searchVars, pageVars, queryVars, listVars,
                   extracted>>

\* ---- search_candidates ----
\* where search_candidates' value goes
SearchGives(value) ==
    IF entry = "search_candidates"
    THEN /\ pc' = "returned"
         /\ returned' = [given |-> TRUE, value |-> value]
         /\ ci' = ci
    ELSE /\ pc' = "candidates"
         /\ ci' = 0
         /\ UNCHANGED returned

\* region.cache_on_arguments: the value memoized for the same arguments
SearchCached ==
    /\ pc = "search"
    /\ cache.valid /\ cache.q = q
    /\ candidates' = cache.value
    /\ SearchGives(cache.value)
    /\ UNCHANGED <<call, world, entry, cache, nresults, hi, malformed, page_no,
                   remaining, queryVars, listVars, extracted>>

SearchGet ==
    /\ pc = "search"
    /\ \E n \in 0 .. MaxResults : nresults' = n
    /\ hi' = 0
    /\ candidates' = <<>>
    /\ malformed' = FALSE
    /\ pc' = "results"
    /\ UNCHANGED <<call, world, entry, cache, pageVars, queryVars, listVars,
                   returned, extracted>>

\* r.raise_for_status()
SearchGetFails ==
    /\ pc = "search"
    /\ Propagate
    /\ Unwind
    /\ UNCHANGED <<call, world, entry, cache, malformed, queryVars, listVars,
                   extracted>>

SearchHit ==
    /\ pc = "results"
    /\ hi < nresults
    /\ \E hit \in Hits(world) :
          /\ ~HitRaises(hit)
          /\ malformed' = (malformed \/ ~hit.has_source \/ hit.id_imdb.k = "absent")
          /\ LET item == Normalize(hit)
             IN  candidates' = IF CandidatePasses(item, q)
                               THEN Append(candidates, item)
                               ELSE candidates
    /\ hi' = hi + 1
    /\ UNCHANGED <<call, world, entry, pc, cache, nresults, pageVars, queryVars,
                   listVars, returned, extracted>>

SearchHitRaises ==
    /\ pc = "results"
    /\ hi < nresults
    /\ \E hit \in Hits(world) : HitRaises(hit)
    /\ malformed' = TRUE
    /\ Propagate
    /\ Unwind
    /\ UNCHANGED <<call, world, entry, cache, queryVars, listVars, extracted>>

SearchReturn ==
    /\ pc = "results"
    /\ hi = nresults
    /\ cache' = [valid |-> TRUE, q |-> q, value |-> candidates]
    /\ SearchGives(candidates)
    /\ nresults' = 0
    /\ hi' = 0
    /\ UNCHANGED <<call, world, entry, candidates, malformed,
                   page_no, remaining, queryVars, listVars, extracted>>

\* ---- query ----
NextCandidate ==
    /\ pc = "candidates"
    /\ ci < Len(candidates)
    /\ ci' = ci + 1
    /\ page_no' = 0
    /\ pc' = "page"
    /\ UNCHANGED <<call, world, entry, searchVars, remaining, queryVars,
                   listVars, returned, extracted>>

\* the page at page_url, with its listing blocks
FetchPage ==
    /\ pc = "page"
    /\ \E n \in 0 .. (MaxEntries - Len(seen)) : remaining' = n
    /\ page_no' = page_no + 1
    /\ pc' = "divs"
    /\ UNCHANGED <<call, world, entry, searchVars, ci, queryVars, listVars,
                   returned, extracted>>

\* r.raise_for_status()
FetchPageFails ==
    /\ pc = "page"
    /\ Propagate
    /\ Unwind
    /\ UNCHANGED <<call, world, entry, cache, malformed, queryVars, listVars,
                   extracted>>

\* what the run keeps of a listing entry it has parsed
Seen(candidate, e, downloaded, unpacked, content) ==
    [candidate |-> candidate, name |-> e.name,
     multiple_episodes |-> e.multiple_episodes, downloaded |-> downloaded,
     unpacked |-> unpacked, content |-> content]

\* LegendasTvSubtitle(language, page_link, subtitle_id, name, content, ...)
LegendasTvSubtitle(e, f, entry_no, discovered) ==
    [entry_no |-> entry_no, name |-> f, language |-> language,
     featured |-> e.featured, no_downloads |-> e.no_downloads,
     rating |-> e.rating, multiple_episodes |-> e.multiple_episodes,
     discovered |-> discovered]

\* the entry's name does not match: continue
EntrySkipped ==
    /\ pc = "divs"
    /\ remaining > 0
    /\ \E div \in Divs(world, candidates[ci]) :
          LET e == ParseDiv(div)
          IN  /\ ~EntryPasses(candidates[ci], e, q)
              /\ seen' = Append(seen, Seen(candidates[ci], e, FALSE, FALSE, NotAnArchive))
    /\ remaining' = remaining - 1
    /\ UNCHANGED <<call, world, entry, pc, searchVars, ci, page_no, q, language,
                   subtitles, listVars, returned, extracted>>

\* download_content's r.raise_for_status()
EntryDownloadFails ==
    /\ pc = "divs"
    /\ remaining > 0
    /\ \E div \in Divs(world, candidates[ci]) :
          LET e == ParseDiv(div)
          IN  /\ EntryPasses(candidates[ci], e, q)
              /\ seen' = Append(seen, Seen(candidates[ci], e, TRUE, FALSE, NotAnArchive))
    /\ Propagate
    /\ Unwind
    /\ UNCHANGED <<call, world, entry, cache, malformed, q, language, subtitles,
                   listVars, extracted>>

\* downloaded, but get_subtitle_names gives None or an empty list: continue
EntryWithoutNames ==
    /\ pc = "divs"
    /\ remaining > 0
    /\ \E div \in Divs(world, candidates[ci]),
          content \in Archives(world, candidates[ci]) :
          LET e == ParseDiv(div)
          IN  /\ EntryPasses(candidates[ci], e, q)
              /\ get_subtitle_names(content).names = <<>>
              /\ seen' = Append(seen, Seen(candidates[ci], e, TRUE, TRUE, content))
    /\ remaining' = remaining - 1
    /\ UNCHANGED <<call, world, entry, pc, searchVars, ci, page_no, q, language,
                   subtitles, listVars, returned, extracted>>

\* downloaded and unpacked: one record for each inner name that matches
EntryWithNames ==
    /\ pc = "divs"
    /\ remaining > 0
    /\ \E div \in Divs(world, candidates[ci]),
          content \in Archives(world, candidates[ci]) :
          LET e == ParseDiv(div)
              subtitle_names == get_subtitle_names(content).names
              Keeps(f) == NamePasses(candidates[ci], e, f, q)
              kept == SelectSeq(subtitle_names, Keeps)
          IN  /\ EntryPasses(candidates[ci], e, q)
              /\ subtitle_names # <<>>
              /\ seen' = Append(seen, Seen(candidates[ci], e, TRUE, TRUE, content))
              /\ subtitles' = subtitles \o
                    [i \in 1 .. Len(kept) |->
                        LegendasTvSubtitle(e, kept[i], Len(seen) + 1, Len(subtitles) + i)]
    /\ remaining' = remaining - 1
    /\ UNCHANGED <<call, world, entry, pc, searchVars, ci, page_no, q, language,
                   listVars, returned, extracted>>

\* the page is done and has a 'carregar mais' link: page_url is its target
FollowLoadMore ==
    /\ pc = "divs"
    /\ remaining = 0
    /\ page_no < MaxPages
    /\ pc' = "page"
    /\ UNCHANGED <<call, world, entry, searchVars, pageVars, queryVars, listVars,
                   returned, extracted>>

\* a page without the link starts the candidate's chain over
LastPageDone_refetches ==
    /\ pc = "divs"
    /\ remaining = 0
    /\ pc' = "page"
    /\ page_no' = 0
    /\ UNCHANGED <<call, world, entry, searchVars, ci, remaining, queryVars,
                   listVars, returned, extracted>>

\* the page is done and has no such link: page_url is None, the while loop ends
LastPageDone ==
    /\ pc = "divs"
    /\ remaining = 0
    /\ pc' = "candidates"
    /\ page_no' = 0
    /\ UNCHANGED <<call, world, entry, searchVars, ci, remaining, queryVars,
                   listVars, returned, extracted>>

\* subtitles.sort(...); return subtitles
QueryReturn ==
    /\ pc = "candidates"
    /\ ci = Len(candidates)
    /\ IF entry = "list_subtitles"
       THEN /\ listed' = listed \o SortSubtitles(subtitles)
            /\ li' = li + 1
            /\ pc' = "languages"
            /\ UNCHANGED returned
       ELSE /\ returned' = [given |-> TRUE, value |-> SortSubtitles(subtitles)]
            /\ pc' = "returned"
            /\ UNCHANGED <<li, listed>>
    /\ ci' = 0
    /\ candidates' = <<>>
    /\ UNCHANGED <<call, world, entry, cache, nresults, hi, malformed, page_no,
                   remaining, queryVars, languages, extracted>>

(***************************************************************************)
(* The specifications: the matcher alone, search_candidates alone, query   *)
(* over a catalogue that varies the names and the archives, query over a   *)
(* catalogue that varies the popularity, and list_subtitles.               *)
(***************************************************************************)
InitMatches == InitMachine("none")

NextMatches == MatchesCall

SpecMatches == InitMatches /\ [][NextMatches]_vars

SearchActions ==
    \/ SearchGet
    \/ SearchGetFails
    \/ SearchHit
    \/ SearchHitRaises
    \/ SearchReturn

QueryActions ==
    \/ NextCandidate
    \/ FetchPage
    \/ FetchPageFails
    \/ EntrySkipped
    \/ EntryDownloadFails
    \/ EntryWithoutNames
    \/ EntryWithNames
    \/ FollowLoadMore
    \/ LastPageDone
    \/ QueryReturn

InitSearch == InitMachine("search")

NextSearch == CallSearchCandidates \/ SearchActions

SpecSearch == InitSearch /\ [][NextSearch]_vars

InitQuery == InitMachine("funnel")

NextQuery == CallQuery \/ download_subtitle \/ SearchActions \/ QueryActions

SpecQuery == InitQuery /\ [][NextQuery]_vars

InitRank == InitMachine("rank")

SpecRank == InitRank /\ [][NextQuery]_vars

InitList == InitMachine("list")

NextList ==
    \/ CallListSubtitles
    \/ ListNextLanguage
    \/ ListReturn
    \/ SearchCached
    \/ SearchActions
    \/ QueryActions

SpecList == InitList /\ [][NextList]_vars

\* query over a small catalogue, as the interpreter runs it: a call that has
\* begun keeps taking its next step (every request has a timeout, so each
\* one answers or raises)
InitPages == InitMachine("pages")

SpecPages ==
    InitPages /\ [][NextQuery]_vars /\ WF_vars(SearchActions \/ QueryActions)

(***************************************************************************)
(* Properties of matches, checked under SpecMatches.                       *)
(***************************************************************************)
\* C5: whenever matches returns True with ignore_episode=False, it also
\* returns True with ignore_episode=True and every other argument unchanged.
C5_IgnoreEpisodeOnlyRelaxes ==
    (call.done /\ ~call.ignore_episode /\ call.result)
        => matches(call.actual, call.title, call.season, call.episode,
                   call.year, TRUE)

\* an episode query that matched strictly
C5_Witness ==
    /\ call.done /\ ~call.ignore_episode /\ call.result
    /\ Truthy(call.season)
    /\ call.actual.episode = call.episode

\* C6: for a movie query (no expected season), whenever the expected year or
\* the actual year is absent (both absent included), matches returns True
\* only if the titles are equal under the exact, non-partial comparison.
C6_MissingYearNeedsExactTitle ==
    (/\ call.done
     /\ call.season = None
     /\ (call.year = None \/ call.actual.year = None)
     /\ call.result)
        => sanitized_string_equal(call.title, call.actual.title, FALSE)

\* C7: for an episode query (expected season truthy), matches returns True
\* if and only if the actual type is 'episode', the titles are partially
\* equal, the seasons are equal, and ignore_episode is set or the episodes
\* are equal.
C7_EpisodeBranchIff ==
    (call.done /\ Truthy(call.season))
        => (call.result <=>
               /\ call.actual.type = "episode"
               /\ sanitized_string_equal(call.title, call.actual.title, TRUE)
               /\ call.actual.season = call.season
               /\ (call.ignore_episode \/ call.actual.episode = call.episode))

\* same season, another episode, accepted because the episode is ignored
C7_Witness ==
    /\ call.done /\ Truthy(call.season)
    /\ call.actual.season = call.season
    /\ Truthy(call.episode) /\ call.actual.episode # None
    /\ call.actual.episode # call.episode
    /\ call.ignore_episode /\ call.result

(***************************************************************************)
(* Properties of search_candidates, checked under SpecSearch.              *)
(***************************************************************************)
\* C8: a malformed raw hit (no '_source' record, or no IMDB id) is skipped:
\* no error leaves search_candidates, which still returns its list.
C8_MalformedHitSkipped ==
    (entry = "search_candidates" /\ malformed)
        => /\ pc # "raised"
           /\ (pc = "returned" => returned.given)

(***************************************************************************)
(* Properties of query, checked under SpecQuery (names and archives vary)  *)
(* and SpecRank (popularity varies).                                       *)
(***************************************************************************)
\* C1: download_content (and the archive listing after it) is invoked for a
\* listing entry only when the entry's guessed name has passed matches with
\* ignore_episode = the entry's multiple_episodes flag.
C1_DownloadOnlyAfterMatch ==
    \A k \in 1 .. Len(seen) :
        (seen[k].downloaded \/ seen[k].unpacked)
            => matches(guessit(seen[k].name, seen[k].candidate.type),
                       q.title, q.season, q.episode, q.year,
                       seen[k].multiple_episodes)

\* a pack of another episode was downloaded, a single of it was not
C1_Witness ==
    /\ Truthy(q.season)
    /\ \E k \in 1 .. Len(seen) :
          /\ seen[k].downloaded
          /\ seen[k].multiple_episodes
          /\ seen[k].name.episode # q.episode
    /\ \E k \in 1 .. Len(seen) :
          /\ ~seen[k].downloaded
          /\ ~seen[k].multiple_episodes
          /\ seen[k].name.season = q.season

\* C2: query returns exactly one record for each (listing entry, inner
\* filename) pair whose candidate passed matches ignoring the episode, whose
\* entry name passed matches with ignore_episode = multiple_episodes, and
\* whose inner filename is a listed subtitle name that passes matches with
\* the episode compared; it returns no other record, so for an episode query
\* every returned inner filename is of the episode asked for.
C2_OneRecordPerMatchingPair ==
    (entry = "query" /\ pc = "returned")
        => LET Listed(k) ==
                   IF seen[k].content.fmt \in {"rar", "zip"}
                   THEN {seen[k].content.members[i] :
                            i \in 1 .. Len(seen[k].content.members)}
                   ELSE {}
               Pairs ==
                   {<<k, f>> \in
                       UNION {{<<j, g>> : g \in Listed(j)} : j \in 1 .. Len(seen)} :
                       /\ matches(seen[k].candidate, q.title, q.season, q.episode,
                                  q.year, TRUE)
                       /\ matches(guessit(seen[k].name, seen[k].candidate.type),
                                  q.title, q.season, q.episode, q.year,
                                  seen[k].multiple_episodes)
                       /\ ~f.marked
                       /\ f.ext \in SUBTITLE_EXTENSIONS
                       /\ matches(guessit(f.stem, seen[k].candidate.type),
                                  q.title, q.season, q.episode, q.year, FALSE)}
               v == returned.value
           IN  /\ returned.given
               /\ {<<v[i].entry_no, v[i].name>> : i \in 1 .. Len(v)} = Pairs
               /\ Len(v) = Cardinality(Pairs)
               /\ Truthy(q.season)
                    => \A i \in 1 .. Len(v) : v[i].name.stem.episode = q.episode

\* a pack whose archive also holds another episode gave a record
C2_Witness ==
    /\ entry = "query" /\ pc = "returned"
    /\ \E i \in 1 .. Len(returned.value) :
          LET r == returned.value[i]
          IN  /\ r.multiple_episodes
              /\ seen[r.entry_no].name.episode # q.episode
              /\ \E j \in 1 .. Len(seen[r.entry_no].content.members) :
                    LET f == seen[r.entry_no].content.members[j]
                    IN  ~f.marked /\ f.ext = "srt" /\ f.stem.episode # q.episode

\* C10: content that is neither RAR nor ZIP gives no names and a null
\* extraction without raising; in query such a listing entry adds no record
\* and the loop goes on with the next listing entry.
C10_UnrecognizedArchiveIsSkipped ==
    /\ [](/\ (extracted.called /\ extracted.content.fmt \notin {"rar", "zip"})
                => (extracted.result = "none" /\ pc = "returned")
          /\ \A k \in 1 .. Len(seen) :
                (seen[k].unpacked /\ seen[k].content.fmt \notin {"rar", "zip"})
                    => /\ get_subtitle_names(seen[k].content).names = <<>>
                       /\ \A i \in 1 .. Len(subtitles) : subtitles[i].entry_no # k)
    /\ [][(/\ Len(seen') = Len(seen) + 1
           /\ seen'[Len(seen')].unpacked
           /\ seen'[Len(seen')].content.fmt \notin {"rar", "zip"})
              => (/\ pc' = "divs"
                  /\ remaining' = remaining - 1
                  /\ subtitles' = subtitles)]_vars

\* after an entry whose content was no archive, a later entry gave a record
C10_Witness ==
    \E k \in 1 .. Len(seen) :
        /\ seen[k].unpacked
        /\ seen[k].content.fmt \notin {"rar", "zip"}
        /\ \E i \in 1 .. Len(subtitles) : subtitles[i].entry_no > k

\* C3: the returned list is ordered descending by (featured, no_downloads,
\* rating, multiple_episodes), a missing no_downloads or rating below every
\* present value, and records with equal tuples stay in discovery order.
C3_DescendingAndStable ==
    (entry = "query" /\ pc = "returned")
        => LET v == returned.value
               Below(x, y) == (x = None /\ y # None) \/ (x # None /\ y # None /\ x < y)
               K(r) == <<IF r.featured THEN 1 ELSE 0, r.no_downloads, r.rating,
                         IF r.multiple_episodes THEN 1 ELSE 0>>
               TupleBelow(a, b) ==
                   \E n \in 1 .. 4 :
                       Below(K(a)[n], K(b)[n]) /\ \A m \in 1 .. (n - 1) : K(a)[m] = K(b)[m]
           IN  /\ Len(v) = Len(subtitles)
               /\ {v[i].discovered : i \in 1 .. Len(v)} = 1 .. Len(subtitles)
               /\ \A i \in 1 .. Len(v) : v[i] = subtitles[v[i].discovered]
               /\ \A i, j \in 1 .. Len(v) :
                     i < j => /\ ~TupleBelow(v[i], v[j])
                              /\ K(v[i]) = K(v[j]) => v[i].discovered < v[j].discovered

\* records of two entries, with a tie and with a missing no_downloads
C3_Witness ==
    /\ entry = "query" /\ pc = "returned"
    /\ \E i, j \in 1 .. Len(returned.value) :
          /\ i # j
          /\ SortKey(returned.value[i]) = SortKey(returned.value[j])
    /\ \E i, j \in 1 .. Len(returned.value) :
          /\ returned.value[i].no_downloads = None
          /\ returned.value[j].no_downloads # None
          /\ returned.value[i].discovered < returned.value[j].discovered

\* C4 as stated: with featured, no_downloads and rating equal, the single
\* release (multiple_episodes = False) comes before the pack.
C4_SingleBeforePack ==
    (entry = "query" /\ pc = "returned")
        => \A i, j \in 1 .. Len(returned.value) :
              LET a == returned.value[i]
                  b == returned.value[j]
              IN  (/\ a.featured = b.featured
                   /\ a.no_downloads = b.no_downloads
                   /\ a.rating = b.rating
                   /\ ~a.multiple_episodes /\ b.multiple_episodes) => i < j

\* C4 as amended: with featured, no_downloads and rating equal, the pack
\* (multiple_episodes = True) comes before the single release.
C4_PackBeforeSingle ==
    (entry = "query" /\ pc = "returned")
        => \A i, j \in 1 .. Len(returned.value) :
              LET a == returned.value[i]
                  b == returned.value[j]
              IN  (/\ a.featured = b.featured
                   /\ a.no_downloads = b.no_downloads
                   /\ a.rating = b.rating
                   /\ ~a.multiple_episodes /\ b.multiple_episodes) => j < i

\* a single release discovered before a pack of the same popularity
C4_Witness ==
    /\ entry = "query" /\ pc = "returned"
    /\ \E i, j \in 1 .. Len(returned.value) :
          LET a == returned.value[i]
              b == returned.value[j]
          IN  /\ a.featured = b.featured
              /\ a.no_downloads = b.no_downloads
              /\ a.rating = b.rating
              /\ ~a.multiple_episodes /\ b.multiple_episodes
              /\ a.discovered < b.discovered

(***************************************************************************)
(* Properties of list_subtitles, checked under SpecList.                   *)
(***************************************************************************)
\* C9 as stated: when a failure occurs while a later candidate or language
\* is queried, the records collected before it are still returned.
C9_CollectedRecordsReturned ==
    (entry = "list_subtitles" /\ pc = "raised" /\ listed # <<>>)
        => /\ returned.given
           /\ Len(returned.value) >= Len(listed)
           /\ SubSeq(returned.value, 1, Len(listed)) = listed

\* C9 as amended: such a failure leaves list_subtitles as an exception, and
\* the caller is handed no list, whatever had been collected.
C9_FailureReturnsNothing ==
    /\ [](entry = "list_subtitles" /\ pc = "raised" => ~returned.given)
    /\ [][(/\ entry = "list_subtitles"
           /\ \/ SearchGetFails \/ SearchHitRaises
              \/ FetchPageFails \/ EntryDownloadFails)
              => pc' = "raised" /\ ~returned'.given]_vars

\* the second language failed after the first had given records
C9_Witness ==
    /\ entry = "list_subtitles" /\ pc = "raised"
    /\ li >= 1
    /\ listed # <<>>

(***************************************************************************)
(* Properties of the page loop of query, checked under SpecPages.          *)
(***************************************************************************)
\* C11: for each candidate query fetches the first listing page and then the
\* page behind each 'load more' link, in chain order and once each; a page's
\* entries are all processed before the next fetch; a page without the link
\* ends that candidate's loop; and with finite page chains the call ends.
C11_PageChainFollowedToItsEnd ==
    \* a fetch is of the next page of the chain of the same candidate
    /\ [][pc' = "divs" /\ pc # "divs"
            => pc = "page" /\ page_no' = page_no + 1 /\ ci' = ci]_vars
    \* a candidate's chain starts at its first page, candidates taken in order
    /\ [][pc' = "page" /\ pc # "divs"
            => pc = "candidates" /\ ci' = ci + 1 /\ page_no' = 0]_vars
    \* the page is left only with all its entries processed (or by raising)
    /\ [][pc = "divs" /\ pc' \notin {"divs", "raised"} => remaining = 0]_vars
    \* following the link keeps the place in the chain
    /\ [][FollowLoadMore => pc' = "page" /\ page_no' = page_no /\ ci' = ci]_vars
    \* a page without the link ends the loop of its candidate
    /\ [][LastPageDone => pc' = "candidates" /\ ci' = ci]_vars
    /\ [][pc = "divs" /\ pc' = "page" => page_no' = page_no /\ page_no >= 1]_vars
    \* the call ends
    /\ (entry = "query") ~> (pc \in {"returned", "raised"})

\* the second page of a candidate's chain has been fetched and its entries
\* processed, after the entries of the first
C11_Witness ==
    /\ entry = "query" /\ pc = "divs"
    /\ ci >= 1 /\ page_no >= 2
    /\ remaining = 0 /\ seen # <<>>

(***************************************************************************)
(* Properties of the candidates, checked under SpecSearch.                 *)
(***************************************************************************)
\* C12: every candidate search_candidates builds or returns has type 'movie'
\* or 'episode', a raw type code outside the map (or a missing one) giving
\* 'movie', and its season, year and imdb_id are each a non-negative
\* integer or None.
C12_CandidatesAreNormalized ==
    /\ \A tipo \in {hit.tipo : hit \in Hits(world)} :
          /\ type_map(tipo) \in {"movie", "episode"}
          /\ tipo \notin {"M", "S", "C"} => type_map(tipo) = "movie"
    /\ \A c \in {candidates[i] : i \in 1 .. Len(candidates)}
                \cup {returned.value[i] : i \in 1 .. Len(returned.value)} :
          /\ c.type \in {"movie", "episode"}
          /\ \A field \in {"season", "year", "imdb_id"} :
                c[field] = None \/ c[field] \in Nat

\* search_candidates has returned a candidate of type 'movie' whose numeric
\* fields were all unusable, and one whose year and imdb_id are numbers
C12_Witness ==
    /\ entry = "search_candidates" /\ pc = "returned" /\ returned.given
    /\ \E i, j \in 1 .. Len(returned.value) :
          /\ returned.value[i].type = "movie"
          /\ returned.value[i].season = None
          /\ returned.value[i].year = None
          /\ returned.value[i].imdb_id = None
          /\ returned.value[j].year # None
          /\ returned.value[j].imdb_id # None

====
